---- MODULE Spec2Model ----
(***************************************************************************)
(* Model of app.py, a Streamlit dashboard that resolves a company name or  *)
(* a 6-digit code, fetches a daily price series and derives MA5/20/60/120, *)
(* RSI(14) and a return summary.                                           *)
(*                                                                         *)
(* Numbers that pandas holds as float64 are modelled as exact extended     *)
(* rationals <<n, d>> in lowest terms with d > 0; <<0,0>> is NaN, <<1,0>>  *)
(* is +inf and <<-1,0>> is -inf, with the IEEE rules for x/0, inf and NaN  *)
(* (rounding and the sign of zero are not modelled).                       *)
(* Strings are sequences of one-character strings, dates are records       *)
(* [y, m, d] and a DataFrame column is a sequence (bar index i, 0-based,   *)
(* is position i + 1).                                                     *)
(***************************************************************************)
EXTENDS Integers, Sequences, FiniteSets, TLC

\* ------------------------------------------------------------------------
\* float64 arithmetic as used by pandas / numpy
\* ------------------------------------------------------------------------
NaN == <<0, 0>>
PInf == <<1, 0>>
NInf == <<-1, 0>>

Abs(x) == IF x < 0 THEN -x ELSE x

RECURSIVE GCD(_, _)
GCD(a, b) == IF b = 0 THEN a ELSE GCD(b, a % b)

Norm(n, d) ==
  IF d = 0 THEN <<(IF n > 0 THEN 1 ELSE IF n < 0 THEN -1 ELSE 0), 0>>
  ELSE LET g == GCD(Abs(n), Abs(d))
           s == IF d < 0 THEN -1 ELSE 1
       IN <<(s * n) \div g, (s * d) \div g>>

R(n) == <<n, 1>>
IsNaN(a) == a = NaN
IsInf(a) == a[2] = 0 /\ a[1] # 0
IsFinite(a) == a[2] # 0
Sign(a) == IF a[1] > 0 THEN 1 ELSE IF a[1] < 0 THEN -1 ELSE 0

RNeg(a) == <<-a[1], a[2]>>

RAdd(a, b) ==
  IF IsNaN(a) \/ IsNaN(b) THEN NaN
  ELSE IF IsInf(a) THEN (IF IsInf(b) /\ b # a THEN NaN ELSE a)
  ELSE IF IsInf(b) THEN b
  ELSE Norm(a[1] * b[2] + b[1] * a[2], a[2] * b[2])

RSub(a, b) == RAdd(a, RNeg(b))

RMul(a, b) ==
  IF IsNaN(a) \/ IsNaN(b) THEN NaN
  ELSE IF IsInf(a) \/ IsInf(b) THEN Norm(Sign(a) * Sign(b), 0)
  ELSE Norm(a[1] * b[1], a[2] * b[2])

\* x / 0 is +-inf for x # 0 and NaN for x = 0; finite / inf is 0.
RDiv(a, b) ==
  IF IsNaN(a) \/ IsNaN(b) THEN NaN
  ELSE IF IsInf(b) THEN (IF IsInf(a) THEN NaN ELSE R(0))
  ELSE IF IsInf(a) THEN (IF Sign(b) < 0 THEN RNeg(a) ELSE a)
  ELSE Norm(a[1] * b[2], a[2] * b[1])

\* a <= b on finite values
RLe(a, b) == a[1] * b[2] <= b[1] * a[2]

\* ------------------------------------------------------------------------
\* pandas Series operations used by add_indicators
\* ------------------------------------------------------------------------
ToFloat(col) == [i \in 1..Len(col) |-> R(col[i])]

\* Series.diff(): NaN at the first row, x[i] - x[i-1] after it.
Diff(col) ==
  [i \in 1..Len(col) |-> IF i = 1 THEN NaN ELSE RSub(col[i], col[i - 1])]

\* Series.clip(lower=0) / Series.clip(upper=0): NaN stays NaN.
ClipLower0(col) ==
  [i \in 1..Len(col) |->
     IF IsNaN(col[i]) THEN NaN ELSE IF RLe(col[i], R(0)) THEN R(0) ELSE col[i]]

ClipUpper0(col) ==
  [i \in 1..Len(col) |->
     IF IsNaN(col[i]) THEN NaN ELSE IF RLe(R(0), col[i]) THEN R(0) ELSE col[i]]

NegCol(col) == [i \in 1..Len(col) |-> RNeg(col[i])]

RECURSIVE WinSum(_, _, _)
WinSum(col, lo, hi) ==
  IF lo > hi THEN R(0)
  ELSE IF IsNaN(col[hi]) THEN WinSum(col, lo, hi - 1)
  ELSE RAdd(WinSum(col, lo, hi - 1), col[hi])

RECURSIVE WinObs(_, _, _)
WinObs(col, lo, hi) ==
  IF lo > hi THEN 0
  ELSE WinObs(col, lo, hi - 1) + (IF IsNaN(col[hi]) THEN 0 ELSE 1)

WinLo(i, w) == IF i - w + 1 < 1 THEN 1 ELSE i - w + 1

\* faulty variant: rolling(w, min_periods=1)
MinPeriods_One(w) == 1

\* min_periods of Series.rolling(w) defaults to w.
MinPeriods(w) == w

\* Series.rolling(w).mean(): the mean of the non-NaN observations among the
\* trailing w rows, NaN while there are fewer than min_periods of them.
RollingMean(col, w) ==
  [i \in 1..Len(col) |->
     LET lo == WinLo(i, w)
         nobs == WinObs(col, lo, i)
     IN IF nobs < MinPeriods(w) THEN NaN
        ELSE RDiv(WinSum(col, lo, i), R(nobs))]

ColDiv(a, b) == [i \in 1..Len(a) |-> RDiv(a[i], b[i])]

MA5Window == 5
MA20Window == 20
MA60Window == 60
MA120Window == 120
RSIWindow == 14

RsiGain(close) == RollingMean(ClipLower0(Diff(ToFloat(close))), RSIWindow)
\* faulty variant: the falls are averaged without the sign flip
RsiLoss_NoNegate(close) == RollingMean(ClipUpper0(Diff(ToFloat(close))), RSIWindow)

RsiLoss(close) == RollingMean(NegCol(ClipUpper0(Diff(ToFloat(close)))), RSIWindow)

\* rs = gain / loss ; RSI14 = 100 - (100 / (1 + rs))
RsiFromRs(rs) ==
  [i \in 1..Len(rs) |-> RSub(R(100), RDiv(R(100), RAdd(R(1), rs[i])))]

Rsi14(close) == RsiFromRs(ColDiv(RsiGain(close), RsiLoss(close)))

\* add_indicators(df): never raises; an empty frame gives empty columns.
add_indicators(close) ==
  [Close |-> close,
   MA5 |-> RollingMean(ToFloat(close), MA5Window),
   MA20 |-> RollingMean(ToFloat(close), MA20Window),
   MA60 |-> RollingMean(ToFloat(close), MA60Window),
   MA120 |-> RollingMean(ToFloat(close), MA120Window),
   RSI14 |-> Rsi14(close)]

\* ------------------------------------------------------------------------
\* datetime.date: proleptic Gregorian ordinals, date - timedelta(days=n)
\* ------------------------------------------------------------------------
Date(y, m, d) == [y |-> y, m |-> m, d |-> d]

IsLeap(y) == y % 4 = 0 /\ (y % 100 # 0 \/ y % 400 = 0)

DaysInMonth(y, m) ==
  IF m = 2 THEN (IF IsLeap(y) THEN 29 ELSE 28)
  ELSE IF m \in {4, 6, 9, 11} THEN 30 ELSE 31

DaysBeforeYear(y) ==
  LET p == y - 1 IN p * 365 + (p \div 4) - (p \div 100) + (p \div 400)

\* _DAYS_BEFORE_MONTH of a common year, by month
DaysBeforeMonthTable == <<0, 31, 59, 90, 120, 151, 181, 212, 243, 273, 304, 334>>

DaysBeforeMonth(y, m) ==
  DaysBeforeMonthTable[m] + (IF m > 2 /\ IsLeap(y) THEN 1 ELSE 0)

ToOrdinal(dt) == DaysBeforeYear(dt.y) + DaysBeforeMonth(dt.y, dt.m) + dt.d

\* datetime._ord2ymd
FromOrdinal(ord) ==
  LET n0 == ord - 1
      n400 == n0 \div 146097
      r400 == n0 % 146097
      n100 == r400 \div 36524
      r100 == r400 % 36524
      n4 == r100 \div 1461
      r4 == r100 % 1461
      n1 == r4 \div 365
      n == r4 % 365
      year == n400 * 400 + 1 + n100 * 100 + n4 * 4 + n1
  IN IF n1 = 4 \/ n100 = 4 THEN Date(year - 1, 12, 31)
     ELSE LET leap == n1 = 3 /\ (n4 # 24 \/ n100 = 3)
              m0 == (n + 50) \div 32
              p0 == DaysBeforeMonthTable[m0] + (IF m0 > 2 /\ leap THEN 1 ELSE 0)
              month == IF p0 > n THEN m0 - 1 ELSE m0
              dim == IF month = 2 /\ leap THEN 29
                     ELSE IF month = 2 THEN 28
                     ELSE IF month \in {4, 6, 9, 11} THEN 30 ELSE 31
              preceding == IF p0 > n THEN p0 - dim ELSE p0
          IN Date(year, month, n - preceding + 1)

\* end_date - datetime.timedelta(days=n)
MinusDays(dt, n) == FromOrdinal(ToOrdinal(dt) - n)

Days1M == 31
Days3M == 92
Days6M == 183
Days1Y == 365
Years3Y == 3

Presets == {"custom", "1M", "3M", "6M", "YTD", "1Y", "3Y", "MAX"}

\* faulty variant: a month of 30 days
calc_start_date_30(p, end) ==
  IF p = "1M" THEN MinusDays(end, Days1M - 1)
  ELSE IF p = "3M" THEN MinusDays(end, Days3M)
  ELSE IF p = "6M" THEN MinusDays(end, Days6M)
  ELSE IF p = "YTD" THEN Date(end.y, 1, 1)
  ELSE IF p = "1Y" THEN MinusDays(end, Days1Y)
  ELSE IF p = "3Y" THEN MinusDays(end, Days1Y * Years3Y)
  ELSE Date(end.y, 1, 1)

calc_start_date(p, end) ==
  IF p = "1M" THEN MinusDays(end, Days1M)
  ELSE IF p = "3M" THEN MinusDays(end, Days3M)
  ELSE IF p = "6M" THEN MinusDays(end, Days6M)
  ELSE IF p = "YTD" THEN Date(end.y, 1, 1)
  ELSE IF p = "1Y" THEN MinusDays(end, Days1Y)
  ELSE IF p = "3Y" THEN MinusDays(end, Days1Y * Years3Y)
  ELSE Date(end.y, 1, 1)

\* default_start of the date widget: jan_1 unless a day-count preset is chosen
DefaultStart(p, end) ==
  IF p # "custom" /\ p # "MAX" THEN calc_start_date(p, end) ELSE Date(end.y, 1, 1)

EpochYear == 2000
MaxStart == Date(EpochYear, 1, 1)

DigitChars == <<"0", "1", "2", "3", "4", "5", "6", "7", "8", "9">>

RECURSIVE ZeroPad(_, _)
\* the decimal digits of x, zero-padded on the left to at least w characters
ZeroPad(x, w) ==
  IF x < 10 /\ w <= 1 THEN <<DigitChars[x + 1]>>
  ELSE ZeroPad(x \div 10, w - 1) \o <<DigitChars[(x % 10) + 1]>>

\* date.strftime("%Y%m%d")
Strftime(dt) == ZeroPad(dt.y, 4) \o ZeroPad(dt.m, 2) \o ZeroPad(dt.d, 2)

\* ------------------------------------------------------------------------
\* str operations and the symbol resolver
\* ------------------------------------------------------------------------
Digits == {DigitChars[i] : i \in 1..10}
Whitespace == {" "}

RECURSIVE LStrip(_)
LStrip(s) == IF s # <<>> /\ Head(s) \in Whitespace THEN LStrip(Tail(s)) ELSE s

RECURSIVE RStrip(_)
RStrip(s) ==
  IF s # <<>> /\ s[Len(s)] \in Whitespace THEN RStrip(SubSeq(s, 1, Len(s) - 1)) ELSE s

Strip(s) == RStrip(LStrip(s))

IsDigit(s) == s # <<>> /\ \A i \in 1..Len(s) : s[i] \in Digits

CodeLen == 6

\* faulty variant: the length test off by one
IsCode_OffByOne(s) == IsDigit(s) /\ Len(s) = CodeLen + 1

\* company_name.isdigit() and len(company_name) == 6
IsCode(s) == IsDigit(s) /\ Len(s) = CodeLen

\* the rows of the downloaded KRX listing: company name and numeric code
RawListing ==
  << [name |-> <<"A">>, num |-> 100],
     [name |-> <<"0", "A">>, num |-> 11010],
     [name |-> <<"A">>, num |-> 111] >>

\* get_krx_company_list(): codes formatted f"{x:06}"; an empty frame when the
\* download fails.
get_krx_company_list(ok) ==
  IF ok THEN [i \in 1..Len(RawListing) |->
                [name |-> RawListing[i].name, code |-> ZeroPad(RawListing[i].num, CodeLen)]]
  ELSE <<>>

RECURSIVE CodesOf(_, _)
\* company_df.loc[company_df["name"] == company_name, "code"].values
CodesOf(df, name) ==
  IF df = <<>> THEN <<>>
  ELSE (IF Head(df).name = name THEN <<Head(df).code>> ELSE <<>>) \o CodesOf(Tail(df), name)

\* faulty variant: the message does not name the input
NotFoundMsg_NoName(name) == <<" not found; enter the 6-digit code">>

NotFoundMsg(name) == <<"'">> \o name \o <<"'", " not found; enter the 6-digit code">>

get_stock_code_by_company(input, listingOk) ==
  LET name == Strip(input) IN
  IF IsCode(name)
  THEN [raised |-> FALSE, code |-> name, msg |-> <<>>, lookup |-> FALSE, df |-> <<>>]
  ELSE LET df == get_krx_company_list(listingOk)
           codes == CodesOf(df, name)
       IN IF Len(codes) > 0
          THEN [raised |-> FALSE, code |-> codes[1], msg |-> <<>>, lookup |-> TRUE, df |-> df]
          ELSE [raised |-> TRUE, code |-> <<>>, msg |-> NotFoundMsg(name), lookup |-> TRUE,
                df |-> df]

\* ------------------------------------------------------------------------
\* inputs: bounded families of what the user, the clock and the network give
\* ------------------------------------------------------------------------
BasePrice == 1000
MaxShortBars == 16
MaxRunBars == 3
MaxNameLen == 6
FirstYear == 2019
YearSpan == 6

Deltas == {-2, 0, 1}
Patterns == Deltas \X Deltas

\* step j of a pattern <<a, b>>: a on odd steps, b on even steps
PatternStep(p, j) == IF j % 2 = 1 THEN p[1] ELSE p[2]

\* n closes from BasePrice: pattern p1 for the first k steps, then p2
GenCloses(n, k, p1, p2) ==
  LET c[i \in 1..n] ==
        IF i = 1 THEN BasePrice
        ELSE c[i - 1] + (IF i - 1 <= k THEN PatternStep(p1, i - 1) ELSE PatternStep(p2, i - 1))
  IN [i \in 1..n |-> c[i]]

\* the series the specification's scenarios name
Rising15 == [i \in 1..15 |-> 99 + i]
Flat15 == [i \in 1..15 |-> 100]
TwoBars == <<100, 110>>

Windows == {MA5Window, MA20Window, MA60Window, MA120Window}

LongLens == UNION {{w - 1, w, w + 1} : w \in Windows \ {MA5Window}}

\* every two-segment series of up to MaxShortBars bars, and one-pattern series
\* around each moving-average window
SeriesFamily ==
  {GenCloses(n, k, p1, p2) : n \in 0..MaxShortBars, k \in 0..MaxShortBars,
                              p1 \in Patterns, p2 \in Patterns}
  \cup {GenCloses(n, n, p, p) : n \in LongLens, p \in Patterns}
  \cup {Rising15, Flat15, TwoBars}

RunSeries ==
  {GenCloses(n, 1, p, p) : n \in 0..MaxRunBars, p \in {<<1, -2>>, <<0, 0>>}}
  \cup {TwoBars}

Alphabet == {"0", "1", "A", " "}

RECURSIVE StringsOfLen(_)
StringsOfLen(n) ==
  IF n = 0 THEN {<<>>}
  ELSE {<<c>> \o s : c \in Alphabet, s \in StringsOfLen(n - 1)}

AllNames == UNION {StringsOfLen(n) : n \in 0..MaxNameLen}

MaxRunNameLen == 2

\* every short name, and codes of 5, 6 and 7 digits, bare and padded
RunNames ==
  UNION {StringsOfLen(n) : n \in 0..MaxRunNameLen}
  \cup { <<"0", "0", "0", "1", "0", "0">>, <<" ", "0", "0", "0", "0", "0", "0">>,
         <<"0", "0", "0", "0", "0">>, <<"0", "0", "0", "0", "0", "0", "0">> }

AllDates ==
  {Date(y, m, d) : y \in FirstYear..(FirstYear + YearSpan), m \in 1..12, d \in 1..31}
  \ {dt \in [y : FirstYear..(FirstYear + YearSpan), m : 1..12, d : 29..31] :
       dt.d > DaysInMonth(dt.y, dt.m)}

RunDates == {Date(2024, 7, 15), Date(2024, 2, 29), Date(2025, 1, 1)}

\* what the user may have picked in the date widget instead of its default
PickedRange == <<Date(2024, 1, 2), Date(2024, 6, 28)>>
PickedOne == <<Date(2024, 1, 2)>>

\* ------------------------------------------------------------------------
\* state
\* ------------------------------------------------------------------------
VARIABLES
  pc,              \* position of the script run (or of a direct call)
  today,           \* today_date
  company_name,    \* text_input value
  preset,          \* radio value
  default_start,   \* default of the date widget
  default_end,
  selected_dates,  \* date_input value: a tuple of 1 or 2 dates
  confirm_btn,     \* button value
  start_dt, end_dt,
  query,           \* arguments handed to fdr.DataReader
  stock_code,
  company_df,      \* the listing frame the resolver looked the name up in
  price_df,        \* the Close column of the fetched frame
  ind,             \* the frame returned by add_indicators
  kpi,             \* last close, change and change % of the KPI card
  summary,         \* first/last close and total return of the summary card
  raised,          \* the exception that left the called function, "" if none
  raised_msg,      \* its message
  calls,           \* collaborator calls of this run, in order
  ui               \* what the run has rendered, in order

vars == <<pc, today, company_name, preset, default_start, default_end,
          selected_dates, confirm_btn, start_dt, end_dt, query, stock_code,
          company_df, price_df, ind, kpi, summary, raised, raised_msg, calls, ui>>

NoDate == Date(0, 1, 1)
NoQuery == [code |-> <<>>, start |-> <<>>, end |-> <<>>]
NoInd == [Close |-> <<>>, MA5 |-> <<>>, MA20 |-> <<>>, MA60 |-> <<>>,
          MA120 |-> <<>>, RSI14 |-> <<>>]
NoKpi == [close |-> NaN, chg |-> NaN, pct |-> NaN]
NoSummary == [first |-> NaN, last |-> NaN, total_ret |-> NaN]

Item(kind, text) == [kind |-> kind, text |-> text]

\* the values every run starts from
Fresh ==
  /\ today = NoDate
  /\ company_name = <<>>
  /\ preset = "custom"
  /\ default_start = NoDate
  /\ default_end = NoDate
  /\ selected_dates = <<>>
  /\ confirm_btn = FALSE
  /\ start_dt = NoDate
  /\ end_dt = NoDate
  /\ query = NoQuery
  /\ stock_code = <<>>
  /\ company_df = <<>>
  /\ price_df = <<>>
  /\ ind = NoInd
  /\ kpi = NoKpi
  /\ summary = NoSummary
  /\ raised = ""
  /\ raised_msg = <<>>
  /\ calls = <<>>
  /\ ui = <<>>

Init == pc = "clock" /\ Fresh

\* ------------------------------------------------------------------------
\* the script, top to bottom
\* ------------------------------------------------------------------------
\* today_dt = datetime.datetime.now()
ReadClock(dates) ==
  /\ pc = "clock"
  /\ \E d \in dates : today' = d
  /\ pc' = "text_input"
  /\ UNCHANGED <<company_name, preset, default_start, default_end,
                 selected_dates, confirm_btn, start_dt, end_dt, query,
                 stock_code, company_df, price_df, ind, kpi, summary, raised,
                 raised_msg, calls, ui>>

\* company_name = st.sidebar.text_input(...)
TextInput(names) ==
  /\ pc = "text_input"
  /\ \E s \in names : company_name' = s
  /\ pc' = "radio"
  /\ UNCHANGED <<today, preset, default_start, default_end, selected_dates,
                 confirm_btn, start_dt, end_dt, query, stock_code, company_df,
                 price_df, ind, kpi, summary, raised, raised_msg, calls, ui>>

\* preset = st.sidebar.radio(...)
Radio ==
  /\ pc = "radio"
  /\ \E p \in Presets : preset' = p
  /\ pc' = "defaults"
  /\ UNCHANGED <<today, company_name, default_start, default_end,
                 selected_dates, confirm_btn, start_dt, end_dt, query,
                 stock_code, company_df, price_df, ind, kpi, summary, raised,
                 raised_msg, calls, ui>>

Defaults ==
  /\ pc = "defaults"
  /\ default_end' = today
  /\ default_start' = DefaultStart(preset, today)
  /\ pc' = "date_input"
  /\ UNCHANGED <<today, company_name, preset, selected_dates, confirm_btn,
                 start_dt, end_dt, query, stock_code, company_df, price_df,
                 ind, kpi, summary, raised, raised_msg, calls, ui>>

\* selected_dates = st.sidebar.date_input(..., (default_start, default_end)):
\* the default, a range the user picked, or one date while the user is picking
DateInput ==
  /\ pc = "date_input"
  /\ selected_dates' \in {<<default_start, default_end>>, PickedRange, PickedOne}
  /\ pc' = "button"
  /\ UNCHANGED <<today, company_name, preset, default_start, default_end,
                 confirm_btn, start_dt, end_dt, query, stock_code, company_df,
                 price_df, ind, kpi, summary, raised, raised_msg, calls, ui>>

\* confirm_btn = st.sidebar.button(...)
Button ==
  /\ pc = "button"
  /\ confirm_btn' \in BOOLEAN
  /\ pc' = "main"
  /\ UNCHANGED <<today, company_name, preset, default_start, default_end,
                 selected_dates, start_dt, end_dt, query, stock_code,
                 company_df, price_df, ind, kpi, summary, raised, raised_msg,
                 calls, ui>>

Render(item) ==
  /\ ui' = Append(ui, item)
  /\ UNCHANGED <<today, company_name, preset, default_start, default_end,
                 selected_dates, confirm_btn, start_dt, end_dt, query,
                 stock_code, company_df, price_df, ind, kpi, summary, raised,
                 raised_msg, calls>>

\* else: st.info(...)
NotPressed ==
  /\ pc = "main"
  /\ ~confirm_btn
  /\ Render(Item("info", <<"press the query button">>))
  /\ pc' = "done"

\* if not company_name.strip(): st.warning(...); st.stop()
BlankName ==
  /\ pc = "main"
  /\ confirm_btn
  /\ Strip(company_name) = <<>>
  /\ Render(Item("warning", <<"enter a company name">>))
  /\ pc' = "done"

DatesOk(sel) == Len(sel) = 2

\* if not isinstance(selected_dates, (tuple, list)) or len(selected_dates) != 2
BadDates ==
  /\ pc = "main"
  /\ confirm_btn
  /\ Strip(company_name) # <<>>
  /\ ~DatesOk(selected_dates)
  /\ Render(Item("warning", <<"select a start and an end date">>))
  /\ pc' = "done"

\* faulty variant: MAX takes the widget's start like every other preset
QueryRange_Widget(p, sel) == <<sel[1], sel[2]>>

\* the (start_dt, end_dt) of the query
QueryRange(p, sel) ==
  IF p = "MAX" THEN <<MaxStart, sel[2]>> ELSE <<sel[1], sel[2]>>

ResolveRange ==
  /\ pc = "main"
  /\ confirm_btn
  /\ Strip(company_name) # <<>>
  /\ DatesOk(selected_dates)
  /\ start_dt' = QueryRange(preset, selected_dates)[1]
  /\ end_dt' = QueryRange(preset, selected_dates)[2]
  /\ query' = [query EXCEPT !.start = Strftime(start_dt'), !.end = Strftime(end_dt')]
  /\ pc' = "resolve"
  /\ UNCHANGED <<today, company_name, preset, default_start, default_end,
                 selected_dates, confirm_btn, stock_code, company_df,
                 price_df, ind, kpi, summary, raised, raised_msg, calls, ui>>

ResolverCalls(r) ==
  <<"get_stock_code_by_company">>
  \o (IF r.lookup THEN <<"get_krx_company_list">> ELSE <<>>)

\* st.error inside get_krx_company_list when the download fails
ListingError(r, listingOk) ==
  IF r.lookup /\ ~listingOk THEN <<Item("error", <<"listing download failed">>)>> ELSE <<>>

\* except Exception as e: st.error(f"...: {e}")
ErrorItem(msg) == Item("error", <<"error: ">> \o msg)

\* stock_code = get_stock_code_by_company(company_name)
ResolveSymbol ==
  /\ pc = "resolve"
  /\ \E listingOk \in BOOLEAN :
       LET r == get_stock_code_by_company(company_name, listingOk) IN
       /\ calls' = calls \o ResolverCalls(r)
       /\ company_df' = r.df
       /\ IF r.raised
          THEN /\ raised' = "ValueError"
               /\ raised_msg' = r.msg
               /\ ui' = ui \o ListingError(r, listingOk) \o <<ErrorItem(r.msg)>>
               /\ pc' = "done"
               /\ UNCHANGED <<stock_code, query>>
          ELSE /\ stock_code' = r.code
               /\ query' = [query EXCEPT !.code = r.code]
               /\ ui' = ui \o ListingError(r, listingOk)
               /\ pc' = "fetch"
               /\ UNCHANGED <<raised, raised_msg>>
  /\ UNCHANGED <<today, company_name, preset, default_start, default_end,
                 selected_dates, confirm_btn, start_dt, end_dt, price_df, ind,
                 kpi, summary>>

\* price_df = fdr.DataReader(stock_code, start_date, end_date): a series,
\* possibly empty
FetchReturns ==
  /\ pc = "fetch"
  /\ calls' = Append(calls, "DataReader")
  /\ \E df \in RunSeries : price_df' = df
  /\ pc' = "empty_check"
  /\ UNCHANGED <<today, company_name, preset, default_start, default_end,
                 selected_dates, confirm_btn, start_dt, end_dt, query,
                 stock_code, company_df, ind, kpi, summary, raised,
                 raised_msg, ui>>

\* fdr.DataReader raises (network, unknown symbol)
FetchRaises ==
  /\ pc = "fetch"
  /\ calls' = Append(calls, "DataReader")
  /\ raised' = "Exception"
  /\ raised_msg' = <<"fetch failed">>
  /\ ui' = Append(ui, ErrorItem(raised_msg'))
  /\ pc' = "done"
  /\ UNCHANGED <<today, company_name, preset, default_start, default_end,
                 selected_dates, confirm_btn, start_dt, end_dt, query,
                 stock_code, company_df, price_df, ind, kpi, summary>>

\* if price_df.empty: st.info(...); st.stop()
NoData ==
  /\ pc = "empty_check"
  /\ price_df = <<>>
  /\ Render(Item("info", <<"no data in range">>))
  /\ pc' = "done"

\* faulty variant: the empty check before add_indicators is missing
AddIndicators_Unguarded ==
  /\ pc = "empty_check"
  /\ ind' = add_indicators(price_df)
  /\ pc' = "kpi"
  /\ UNCHANGED <<today, company_name, preset, default_start, default_end,
                 selected_dates, confirm_btn, start_dt, end_dt, query,
                 stock_code, company_df, price_df, kpi, summary, raised,
                 raised_msg, calls, ui>>

\* price_df = add_indicators(price_df)
AddIndicators ==
  /\ pc = "empty_check"
  /\ price_df # <<>>
  /\ ind' = add_indicators(price_df)
  /\ pc' = "kpi"
  /\ UNCHANGED <<today, company_name, preset, default_start, default_end,
                 selected_dates, confirm_btn, start_dt, end_dt, query,
                 stock_code, company_df, price_df, kpi, summary, raised,
                 raised_msg, calls, ui>>

\* last, prev, chg, pct of the KPI card
KpiOf(close) ==
  LET n == Len(close)
      last == R(close[n])
      prev == IF n >= 2 THEN R(close[n - 1]) ELSE last
      chg == RSub(last, prev)
  IN [close |-> last, chg |-> chg,
      pct |-> IF prev # R(0) THEN RMul(RDiv(chg, prev), R(100)) ELSE R(0)]

RenderKpi ==
  /\ pc = "kpi"
  /\ kpi' = KpiOf(ind.Close)
  /\ ui' = Append(ui, Item("kpi", company_name))
  /\ pc' = "tabs"
  /\ UNCHANGED <<today, company_name, preset, default_start, default_end,
                 selected_dates, confirm_btn, start_dt, end_dt, query,
                 stock_code, company_df, price_df, ind, summary, raised,
                 raised_msg, calls>>

\* total_ret = (price_df.iloc[-1]["Close"] / price_df.iloc[0]["Close"] - 1) * 100
TotalReturn(close) ==
  RMul(RSub(RDiv(R(close[Len(close)]), R(close[1])), R(1)), R(100))

SummaryOf(close) ==
  [first |-> R(close[1]), last |-> R(close[Len(close)]), total_ret |-> TotalReturn(close)]

\* the total-return line of the summary card: f"{total_ret:.2f}%"
TotalReturnLine(s) == IF IsNaN(s.total_ret) THEN <<"nan%">> ELSE <<"number%">>

\* the four tabs: chart, data, returns, download
RenderTabs ==
  /\ pc = "tabs"
  /\ summary' = SummaryOf(ind.Close)
  /\ ui' = ui \o <<Item("chart", company_name), Item("dataframe", <<>>),
                   Item("total_return", TotalReturnLine(summary')),
                   Item("download", company_name \o <<"_price.xlsx">>)>>
  /\ pc' = "done"
  /\ UNCHANGED <<today, company_name, preset, default_start, default_end,
                 selected_dates, confirm_btn, start_dt, end_dt, query,
                 stock_code, company_df, price_df, ind, kpi, raised,
                 raised_msg, calls>>

\* a widget interaction reruns the script from the top
Rerun ==
  /\ pc = "done"
  /\ pc' = "clock"
  /\ today' = NoDate
  /\ company_name' = <<>>
  /\ preset' = "custom"
  /\ default_start' = NoDate
  /\ default_end' = NoDate
  /\ selected_dates' = <<>>
  /\ confirm_btn' = FALSE
  /\ start_dt' = NoDate
  /\ end_dt' = NoDate
  /\ query' = NoQuery
  /\ stock_code' = <<>>
  /\ company_df' = <<>>
  /\ price_df' = <<>>
  /\ ind' = NoInd
  /\ kpi' = NoKpi
  /\ summary' = NoSummary
  /\ raised' = ""
  /\ raised_msg' = <<>>
  /\ calls' = <<>>
  /\ ui' = <<>>

Next ==
  \/ ReadClock(RunDates)
  \/ TextInput(RunNames)
  \/ Radio
  \/ Defaults
  \/ DateInput
  \/ Button
  \/ NotPressed
  \/ BlankName
  \/ BadDates
  \/ ResolveRange
  \/ ResolveSymbol
  \/ FetchReturns
  \/ FetchRaises
  \/ NoData
  \/ AddIndicators
  \/ RenderKpi
  \/ RenderTabs
  \/ Rerun

Spec == Init /\ [][Next]_vars

\* ------------------------------------------------------------------------
\* the three functions called directly, on wider input families
\* ------------------------------------------------------------------------
InitIndicators ==
  /\ pc = "call_add_indicators"
  /\ price_df \in SeriesFamily
  /\ today = NoDate /\ company_name = <<>> /\ preset = "custom"
  /\ default_start = NoDate /\ default_end = NoDate /\ selected_dates = <<>>
  /\ confirm_btn = FALSE /\ start_dt = NoDate /\ end_dt = NoDate /\ query = NoQuery
  /\ stock_code = <<>> /\ company_df = <<>> /\ ind = NoInd /\ kpi = NoKpi
  /\ summary = NoSummary
  /\ raised = "" /\ raised_msg = <<>> /\ calls = <<>> /\ ui = <<>>

CallAddIndicators ==
  /\ pc = "call_add_indicators"
  /\ ind' = add_indicators(price_df)
  /\ pc' = "returned"
  /\ UNCHANGED <<today, company_name, preset, default_start, default_end,
                 selected_dates, confirm_btn, start_dt, end_dt, query,
                 stock_code, company_df, price_df, kpi, summary, raised,
                 raised_msg, calls, ui>>

SpecIndicators == InitIndicators /\ [][CallAddIndicators]_vars

InitDates ==
  /\ pc = "call_calc_start_date"
  /\ default_end \in AllDates
  /\ preset \in Presets
  /\ today = NoDate /\ company_name = <<>>
  /\ default_start = NoDate /\ selected_dates = <<>>
  /\ confirm_btn = FALSE /\ start_dt = NoDate /\ end_dt = NoDate /\ query = NoQuery
  /\ stock_code = <<>> /\ company_df = <<>> /\ price_df = <<>> /\ ind = NoInd /\ kpi = NoKpi
  /\ summary = NoSummary
  /\ raised = "" /\ raised_msg = <<>> /\ calls = <<>> /\ ui = <<>>

CallCalcStartDate ==
  /\ pc = "call_calc_start_date"
  /\ default_start' = calc_start_date(preset, default_end)
  /\ pc' = "returned"
  /\ UNCHANGED <<today, company_name, preset, default_end, selected_dates,
                 confirm_btn, start_dt, end_dt, query, stock_code, company_df,
                 price_df, ind, kpi, summary, raised, raised_msg, calls, ui>>

SpecDates == InitDates /\ [][CallCalcStartDate]_vars

InitResolver ==
  /\ pc = "call_get_stock_code"
  /\ company_name \in AllNames
  /\ today = NoDate /\ preset = "custom"
  /\ default_start = NoDate /\ default_end = NoDate /\ selected_dates = <<>>
  /\ confirm_btn = FALSE /\ start_dt = NoDate /\ end_dt = NoDate /\ query = NoQuery
  /\ stock_code = <<>> /\ company_df = <<>> /\ price_df = <<>> /\ ind = NoInd /\ kpi = NoKpi
  /\ summary = NoSummary
  /\ raised = "" /\ raised_msg = <<>> /\ calls = <<>> /\ ui = <<>>

CallResolver ==
  /\ pc = "call_get_stock_code"
  /\ \E listingOk \in BOOLEAN :
       LET r == get_stock_code_by_company(company_name, listingOk) IN
       /\ calls' = calls \o ResolverCalls(r)
       /\ company_df' = r.df
       /\ ui' = ui \o ListingError(r, listingOk)
       /\ stock_code' = r.code
       /\ raised' = IF r.raised THEN "ValueError" ELSE ""
       /\ raised_msg' = r.msg
  /\ pc' = "returned"
  /\ UNCHANGED <<today, company_name, preset, default_start, default_end,
                 selected_dates, confirm_btn, start_dt, end_dt, query,
                 price_df, ind, kpi, summary>>

SpecResolver == InitResolver /\ [][CallResolver]_vars

\* ------------------------------------------------------------------------
\* properties
\* ------------------------------------------------------------------------
Bars == Len(price_df)

\* value of a column at 0-based bar index i
At(col, i) == col[i + 1]

RECURSIVE SumOver(_, _, _)
\* close[lo] + ... + close[hi], 0-based and inclusive
SumOver(close, lo, hi) ==
  IF lo > hi THEN 0 ELSE At(close, hi) + SumOver(close, lo, hi - 1)

Max0(x) == IF x > 0 THEN x ELSE 0

RECURSIVE GainOver(_, _, _)
\* the sum of the rises Close[j] - Close[j-1] > 0 at bars lo..hi
GainOver(close, lo, hi) ==
  IF lo > hi THEN 0
  ELSE Max0(At(close, hi) - At(close, hi - 1)) + GainOver(close, lo, hi - 1)

RECURSIVE LossOver(_, _, _)
\* the sum of the falls Close[j-1] - Close[j] > 0 at bars lo..hi
LossOver(close, lo, hi) ==
  IF lo > hi THEN 0
  ELSE Max0(At(close, hi - 1) - At(close, hi)) + LossOver(close, lo, hi - 1)

Returned == pc = "returned"

\* C1: at every bar i >= 14 whose trailing 14 deltas are all zero, RSI14 is
\* exactly 50.
C1_FlatRsiIsFifty ==
  Returned =>
    \A i \in 14..(Bars - 1) :
      (GainOver(price_df, i - 13, i) = 0 /\ LossOver(price_df, i - 13, i) = 0)
        => At(ind.RSI14, i) = R(50)

\* C2: RSI14 is undefined at bars below 14; at a bar i >= 14 whose trailing 14
\* deltas are not all zero it lies in [0, 100] and equals
\* 100 - 100/(1 + avgGain/avgLoss), that is 100 * G / (G + L) for the sums G
\* and L of the rises and falls, and is exactly 100 when there is no fall; the
\* 15-bar series rising by 1 from 100 has RSI14 = 100 at bar 14.
C2_RsiFormula ==
  (Returned /\ Bars > 0) =>
    /\ \A i \in 0..(Bars - 1) :
         LET v == At(ind.RSI14, i) IN
         IF i < 14 THEN IsNaN(v)
         ELSE LET G == GainOver(price_df, i - 13, i)
                  L == LossOver(price_df, i - 13, i)
              IN (G + L > 0) =>
                   /\ IsFinite(v)
                   /\ RLe(R(0), v) /\ RLe(v, R(100))
                   /\ v[1] * (G + L) = 100 * G * v[2]
                   /\ (L = 0 => v = R(100))
    /\ (price_df = Rising15 => At(ind.RSI14, 14) = R(100))

C2_Witness ==
  /\ Returned
  /\ price_df = Rising15
  /\ At(ind.RSI14, 14) = R(100)
  /\ IsNaN(At(ind.RSI14, 13))

MAColumn(N) ==
  IF N = 5 THEN ind.MA5 ELSE IF N = 20 THEN ind.MA20
  ELSE IF N = 60 THEN ind.MA60 ELSE ind.MA120

\* C3: for N in {5, 20, 60, 120}, MA_N at bar i is defined iff i >= N - 1 and
\* is then the mean of Close over bars i-N+1..i; a series shorter than N has
\* no defined MA_N value, and the call raises nothing.
C3_MovingAverages ==
  (Returned /\ Bars > 0) =>
    /\ raised = ""
    /\ \A N \in {5, 20, 60, 120} :
         /\ Len(MAColumn(N)) = Bars
         /\ \A i \in 0..(Bars - 1) :
              LET v == At(MAColumn(N), i) IN
              /\ IsNaN(v) <=> i < N - 1
              /\ i >= N - 1 =>
                   /\ IsFinite(v)
                   /\ v[1] * N = SumOver(price_df, i - N + 1, i) * v[2]
         /\ (Bars < N => \A i \in 0..(Bars - 1) : IsNaN(At(MAColumn(N), i)))

C3_Witness ==
  /\ Returned
  /\ Bars = 121
  /\ IsFinite(At(ind.MA120, 120))
  /\ At(ind.MA120, 120) # At(ind.MA120, 119)
  /\ IsNaN(At(ind.MA120, 118))
  /\ IsFinite(At(ind.MA5, 4))

Card(S) == Cardinality(S)

RECURSIVE DayOfYear(_, _, _)
\* the days of year y before month m, plus d, month by month
DayOfYear(y, m, d) == IF m = 1 THEN d ELSE DaysInMonth(y, m - 1) + DayOfYear(y, m - 1, d)

\* calendar days from date a to the later date b
CalendarDays(a, b) ==
  365 * (b.y - a.y) + Card({y \in a.y..(b.y - 1) : y % 4 = 0 /\ (y % 100 # 0 \/ y % 400 = 0)})
  + DayOfYear(b.y, b.m, b.d) - DayOfYear(a.y, a.m, a.d)

ValidDate(dt) == dt.m \in 1..12 /\ dt.d \in 1..DaysInMonth(dt.y, dt.m)

\* C4: calc_start_date gives a date 31 (1M), 92 (3M), 183 (6M), 365 (1Y) or
\* 1095 (3Y) calendar days before the as-of date and January 1 of its year
\* for YTD; as of 2024-07-15, YTD starts 2024-01-01 and 1Y starts 2023-07-16.
C4_PresetStart ==
  Returned =>
    LET back == CalendarDays(default_start, default_end) IN
    /\ ValidDate(default_start)
    /\ preset = "1M" => back = 31
    /\ preset = "3M" => back = 92
    /\ preset = "6M" => back = 183
    /\ preset = "1Y" => back = 365
    /\ preset = "3Y" => back = 1095
    /\ preset = "YTD" => default_start = Date(default_end.y, 1, 1)
    /\ (default_end = Date(2024, 7, 15) /\ preset = "YTD") => default_start = Date(2024, 1, 1)
    /\ (default_end = Date(2024, 7, 15) /\ preset = "1Y") => default_start = Date(2023, 7, 16)

C4_Witness ==
  /\ Returned
  /\ default_end = Date(2024, 7, 15)
  /\ preset = "1Y"
  /\ default_start = Date(2023, 7, 16)

RangeResolved == start_dt # NoDate

SixDigits(s) == Len(s) = 6 /\ \A i \in 1..6 : s[i] \in Digits

Called(f) == \E i \in 1..Len(calls) : calls[i] = f

\* C6: for an input of exactly 6 digits the resolver returns that string,
\* raises nothing and does not call get_krx_company_list.
C6_CodeShortcut ==
  (Returned /\ SixDigits(company_name)) =>
    /\ stock_code = company_name
    /\ raised = ""
    /\ ~Called("get_krx_company_list")
    /\ calls = <<"get_stock_code_by_company">>

\* a 6-digit code that no row of the listing carries
C6_Witness ==
  /\ Returned
  /\ company_name = <<"0", "0", "0", "0", "0", "0">>
  /\ stock_code = company_name
  /\ \A i \in 1..Len(get_krx_company_list(TRUE)) :
       get_krx_company_list(TRUE)[i].code # company_name

Contains(s, sub) ==
  \E i \in 0..(Len(s) - Len(sub)) : SubSeq(s, i + 1, i + Len(sub)) = sub

NoRowNamed(df, name) == \A i \in 1..Len(df) : df[i].name # name

CountCalls(f) == Card({i \in 1..Len(calls) : calls[i] = f})

ResolverCalled == Called("get_stock_code_by_company")

\* the not-found failure of a query: raised with the name in the message,
\* reported as an error, the run over, no fetch and no second resolver call
NotFoundTerminal(name) ==
  /\ raised = "ValueError"
  /\ Contains(raised_msg, name)
  /\ pc = "done"
  /\ ~Called("DataReader")
  /\ CountCalls("get_stock_code_by_company") = 1
  /\ \E i \in 1..Len(ui) : ui[i].kind = "error" /\ Contains(ui[i].text, name)

\* C7 as stated: when the input is not a 6-digit code and no row of the
\* lookup table has a company name equal to the input, the resolver fails
\* with a not-found error naming the input (the name as the resolver trimmed
\* it counts), and the failure is terminal.
C7_Original ==
  (ResolverCalled /\ ~SixDigits(company_name) /\ NoRowNamed(company_df, company_name))
    => NotFoundTerminal(Strip(company_name))

\* C7 as amended: the same of the input with its surrounding whitespace
\* stripped: the stripped input is what is matched and what the message names.
C7_NotFoundTerminal ==
  (ResolverCalled /\ ~SixDigits(Strip(company_name))
     /\ NoRowNamed(company_df, Strip(company_name)))
    => NotFoundTerminal(Strip(company_name))

C7_Witness ==
  /\ ResolverCalled
  /\ company_name = <<"A", "A">>
  /\ company_df = get_krx_company_list(TRUE)
  /\ NotFoundTerminal(<<"A", "A">>)

\* C8: add_indicators on a series with zero bars signals an error, and on a
\* non-empty series raises nothing.
C8_EmptySeriesError ==
  Returned =>
    /\ Bars = 0 => raised # ""
    /\ Bars > 0 => raised = ""

Rendered(kind) == \E i \in 1..Len(ui) : ui[i].kind = kind

TextOf(kind) == ui[CHOOSE i \in 1..Len(ui) : ui[i].kind = kind].text

\* C9: the return summary of a series with fewer than 2 bars reports no
\* number for the total return; with at least 2 bars and a non-zero first
\* close it reports (lastClose / firstClose - 1) * 100.
C9_TotalReturn ==
  Rendered("total_return") =>
    /\ Bars < 2 => (IsNaN(summary.total_ret) /\ TextOf("total_return") # <<"number%">>)
    /\ (Bars >= 2 /\ price_df[1] # 0) =>
         summary.total_ret[1] * price_df[1]
           = 100 * (price_df[Bars] - price_df[1]) * summary.total_ret[2]

IsPrefix(s, t) == Len(s) <= Len(t) /\ SubSeq(t, 1, Len(s)) = s

\* C10: the resolver and the fetcher are called only in a run with the
\* button pressed, a non-blank name and a pair of two dates; the resolver
\* first, the fetcher at most once and only after the resolver returned a
\* code; indicators, KPI card, charts and export only of a non-empty series;
\* an empty series ends the run with the no-data notice and no error.
C10_RunOrder ==
  /\ calls # <<>> =>
       /\ confirm_btn
       /\ Strip(company_name) # <<>>
       /\ Len(selected_dates) = 2
       /\ calls[1] = "get_stock_code_by_company"
  /\ CountCalls("DataReader") <= 1
  /\ CountCalls("get_stock_code_by_company") <= 1
  /\ Called("DataReader") =>
       /\ calls[Len(calls)] = "DataReader"
       /\ stock_code # <<>>
  /\ (pc \in {"kpi", "tabs"} \/ ind # NoInd \/ Rendered("kpi") \/ Rendered("chart")
        \/ Rendered("dataframe") \/ Rendered("total_return") \/ Rendered("download"))
       => (price_df # <<>> /\ Called("DataReader"))
  /\ (pc = "done" /\ Called("DataReader") /\ raised = "" /\ price_df = <<>>)
       => ui = <<Item("info", <<"no data in range">>)>>

C10_Witness ==
  /\ pc = "done"
  /\ calls = <<"get_stock_code_by_company", "get_krx_company_list", "DataReader">>
  /\ raised = ""
  /\ price_df = <<>>
  /\ ui = <<Item("info", <<"no data in range">>)>>

====
